---------------------------- MODULE Spec2Model ----------------------------
(***************************************************************************)
(* SearchService, POST /fetch (app/routes/fetch.py): the handler           *)
(* FetchContent.post validates the url, clamps the timeout, issues one     *)
(* outbound GET and classifies the upstream reply.                         *)
(*                                                                         *)
(* Strings the handler inspects (urls, Content-Type values, numeric text)  *)
(* are sequences of one-character strings, so that strip(), lower(), the   *)
(* regular expression and the substring tests are computed.  Seconds are   *)
(* whole numbers.                                                          *)
(***************************************************************************)
EXTENDS Integers, Sequences, FiniteSets, TLC

(***************************************************************************)
(* Bounds of the model.                                                    *)
(***************************************************************************)
\* longest remainder (the text after the scheme) of an enumerated url
MaxRem == 3
\* number of requests the hosting runtime serves concurrently
NumReq == 2

(***************************************************************************)
(* Characters and strings.                                                 *)
(***************************************************************************)
\* the characters Python's \s and str.strip() treat as whitespace
Whitespace == {" ", "\n"}

\* str.lower() on one character
LowerChar(c) ==
    CASE c = "H" -> "h" [] c = "T" -> "t" [] c = "P" -> "p" [] c = "S" -> "s"
      [] c = "I" -> "i" [] c = "M" -> "m" [] c = "A" -> "a" [] c = "G" -> "g"
      [] c = "E" -> "e" [] c = "N" -> "n" [] c = "J" -> "j" [] c = "O" -> "o"
      [] c = "X" -> "x" [] c = "L" -> "l"
      [] OTHER -> c

\* str.lower()
Lower(s) == [i \in 1..Len(s) |-> LowerChar(s[i])]

RECURSIVE LStrip(_)
LStrip(s) ==
    IF s # <<>> /\ Head(s) \in Whitespace THEN LStrip(Tail(s)) ELSE s

RECURSIVE RStrip(_)
RStrip(s) ==
    IF s # <<>> /\ s[Len(s)] \in Whitespace
    THEN RStrip(SubSeq(s, 1, Len(s) - 1))
    ELSE s

\* str.strip()
Strip(s) == RStrip(LStrip(s))

\* the Python test  needle in hay
Contains(hay, needle) ==
    \E i \in 0..(Len(hay) - Len(needle)) :
        SubSeq(hay, i + 1, i + Len(needle)) = needle

(***************************************************************************)
(* URL validation.                                                         *)
(***************************************************************************)
HttpScheme == <<"h", "t", "t", "p", ":", "/", "/">>
HttpsScheme == <<"h", "t", "t", "p", "s", ":", "/", "/">>

\* the characters the class [^\s/$.?#] excludes besides whitespace
ExcludedFirst == {"/", "$", ".", "?", "#"}

\* the three pieces after the scheme group: [^\s/$.?#]  .  [^\s]*  up to position m
RemainderMatches(rest, m) ==
    /\ m >= 2
    /\ rest[1] \notin Whitespace \cup ExcludedFirst
    /\ rest[2] # "\n"
    /\ \A i \in 3..m : rest[i] \notin Whitespace

\* the positions where $ matches: the end, and just before a final newline
DollarPositions(rest) ==
    {Len(rest)} \cup
        (IF rest # <<>> /\ rest[Len(rest)] = "\n" THEN {Len(rest) - 1} ELSE {})

\* _HTTP_URL_RE.match(s): ^(https?://)[^\s/$.?#].[^\s]*$ with re.IGNORECASE
_HTTP_URL_RE(s) ==
    \E scheme \in {HttpScheme, HttpsScheme} :
        /\ Len(s) >= Len(scheme)
        /\ Lower(SubSeq(s, 1, Len(scheme))) = scheme
        /\ LET rest == SubSeq(s, Len(scheme) + 1, Len(s))
           IN  \E m \in DollarPositions(rest) : RemainderMatches(rest, m)

_is_valid_http_url(url) == _HTTP_URL_RE(Strip(url))


(***************************************************************************)
(* Request arguments.  An argument is present or not (args.get(key,        *)
(* default)); a timeout value is a float, a string or None.                *)
(***************************************************************************)
FloatV(n) == [kind |-> "float", num |-> n, text |-> <<>>]
StrV(s) == [kind |-> "str", num |-> 0, text |-> s]
NoneV == [kind |-> "none", num |-> 0, text |-> <<>>]

Present(v) == [present |-> TRUE, val |-> v]
MissingTimeout == [present |-> FALSE, val |-> NoneV]
MissingFlag == [present |-> FALSE, val |-> FALSE]

\* args.get(key, default)
ArgsGet(a, key, default) == IF a[key].present THEN a[key].val ELSE default

Digits == {"0", "1", "2", "3", "4", "5", "6", "7", "8", "9"}

DigitVal(c) ==
    CASE c = "0" -> 0 [] c = "1" -> 1 [] c = "2" -> 2 [] c = "3" -> 3
      [] c = "4" -> 4 [] c = "5" -> 5 [] c = "6" -> 6 [] c = "7" -> 7
      [] c = "8" -> 8 [] c = "9" -> 9

RECURSIVE DecimalValue(_)
DecimalValue(s) ==
    IF s = <<>> THEN 0
    ELSE 10 * DecimalValue(SubSeq(s, 1, Len(s) - 1)) + DigitVal(s[Len(s)])

\* float(v): a float is itself, a string of digits is its value, any other
\* string raises ValueError, None raises TypeError
ToFloat(v) ==
    CASE v.kind = "float" -> [ok |-> TRUE, val |-> v.num]
      [] v.kind = "str" ->
            IF v.text # <<>> /\ \A i \in 1..Len(v.text) : v.text[i] \in Digits
            THEN [ok |-> TRUE, val |-> DecimalValue(v.text)]
            ELSE [ok |-> FALSE, val |-> 0]
      [] OTHER -> [ok |-> FALSE, val |-> 0]

DefaultTimeout == 10
MinTimeout == 1
MaxTimeout == 30

\* Python's max(a, b) and min(a, b)
PyMax(a, b) == IF b > a THEN b ELSE a
PyMin(a, b) == IF b < a THEN b ELSE a

\* ConstrainTimeout with the lower bound left out
ConstrainTimeoutNoFloor(v) ==
    LET f == ToFloat(v)
        t == IF f.ok THEN f.val ELSE DefaultTimeout
    IN  PyMin(t, MaxTimeout)

\* "Constrain timeout": float() with the default on failure, then the clamp
ConstrainTimeout(v) ==
    LET f == ToFloat(v)
        t == IF f.ok THEN f.val ELSE DefaultTimeout
    IN  PyMin(PyMax(t, MinTimeout), MaxTimeout)

(***************************************************************************)
(* The outbound GET: what requests.get(url, timeout=...) can do.           *)
(***************************************************************************)
\* the classes of an exception (itself and its bases) that the except clauses test
Ancestors(exc) ==
    CASE exc = "ConnectTimeout" ->
            {"ConnectTimeout", "ConnectionError", "Timeout", "RequestException", "Exception"}
      [] exc = "ReadTimeout" -> {"ReadTimeout", "Timeout", "RequestException", "Exception"}
      [] exc = "ConnectionError" -> {"ConnectionError", "RequestException", "Exception"}
      [] exc = "SSLError" -> {"SSLError", "ConnectionError", "RequestException", "Exception"}
      [] exc = "TooManyRedirects" -> {"TooManyRedirects", "RequestException", "Exception"}
      [] exc = "MemoryError" -> {"MemoryError", "Exception"}
      [] exc = "UnicodeError" -> {"UnicodeError", "ValueError", "Exception"}

\* the exceptions the GET can raise
GetExceptions ==
    {"ConnectTimeout", "ReadTimeout", "ConnectionError", "SSLError",
     "TooManyRedirects", "MemoryError"}

\* an upstream that answers after delay seconds
Answer(delay, status, has_ct, ct, enc, content) ==
    [kind |-> "response", delay |-> delay, status_code |-> status,
     has_content_type |-> has_ct, content_type |-> ct, encoding |-> enc,
     content |-> content]

\* a GET that fails with exception exc
Failure(exc) == [kind |-> "error", exc |-> exc, msg |-> <<"str(e) of ", exc>>]

\* requests.get(url, timeout=t) against behaviour b: the response, or the exception raised
RequestsGet(b, t) ==
    IF b.kind = "error" THEN [ok |-> FALSE, exc |-> b.exc, msg |-> b.msg]
    ELSE IF b.delay > t
         THEN [ok |-> FALSE, exc |-> "ReadTimeout", msg |-> <<"str(e) of ", "ReadTimeout">>]
         ELSE [ok |-> TRUE, resp |-> b]

\* resp.apparent_encoding: the encoding detected from the bytes
ApparentEncoding(content) ==
    IF \A i \in 1..Len(content) : content[i] < 128 THEN "ascii" ELSE "utf-8"

\* the codecs whose decode raises UnicodeError whatever the error handler
RaisingCodecs == {"undefined", "idna"}

\* str(byte, encoding, errors="replace") for one byte: its code point
DecodeByte(b, enc) ==
    IF b < 128 \/ enc = "ISO-8859-1" THEN b ELSE 65533

\* resp.text under encoding enc: "" for an empty body; a codec that raises
\* something other than LookupError or TypeError lets the exception through
ResponseText(content, enc) ==
    IF content = <<>> THEN [ok |-> TRUE, text |-> <<>>]
    ELSE IF enc \in RaisingCodecs THEN [ok |-> FALSE, text |-> <<>>]
    ELSE [ok |-> TRUE, text |-> [i \in 1..Len(content) |-> DecodeByte(content[i], enc)]]


(***************************************************************************)
(* What the handler hands back: a (body, status code) pair, or an          *)
(* exception that leaves post().                                           *)
(***************************************************************************)
NoReturn == [kind |-> "none"]
Return(body, code) == [kind |-> "return", body |-> body, code |-> code]
Raise(exc) == [kind |-> "raise", exc |-> exc]

InvalidUrlBody ==
    [status |-> "error",
     message |-> "Invalid URL. Only http/https URLs are allowed.",
     details |-> <<"Provide a valid HTTP(S) URL in the 'url' field.">>]

TimeoutClause == [cls |-> "Timeout", message |-> "Request timed out", code |-> 408]
RequestExceptionClause ==
    [cls |-> "RequestException", message |-> "Upstream fetch failed", code |-> 502]
ExceptionClause == [cls |-> "Exception", message |-> "Internal server error", code |-> 500]

\* the except clauses with the first two exchanged
ExceptClausesSwapped == << RequestExceptionClause, TimeoutClause, ExceptionClause >>

\* the except clauses of the fetch, in source order
ExceptClauses == << TimeoutClause, RequestExceptionClause, ExceptionClause >>

\* the first clause, in order, whose class the exception is an instance of
OnGetException(exc, msg) ==
    LET hits == {i \in 1..Len(ExceptClauses) : ExceptClauses[i].cls \in Ancestors(exc)}
    IN  IF hits = {} THEN Raise(exc)
        ELSE LET c == ExceptClauses[CHOOSE i \in hits : \A j \in hits : i <= j]
             IN  Return([status |-> "error", message |-> c.message, details |-> msg],
                        c.code)

\* the substrings that make a Content-Type text-like
TextMarkers ==
    { <<"t", "e", "x", "t">>, <<"j", "s", "o", "n">>, <<"x", "m", "l">>,
      <<"h", "t", "m", "l">> }

\* not content_type or "text" in content_type.lower() or ...
IsTextLike(content_type) ==
    \/ content_type = <<>>
    \/ \E m \in TextMarkers : Contains(Lower(content_type), m)

\* resp.headers.get("Content-Type", "") or ""
ContentTypeOf(resp) == IF resp.has_content_type THEN resp.content_type ELSE <<>>

\* the success return with the upstream's status as the wrapper status
SuccessReturnUpstreamStatus(text, content_type, url, status_code) ==
    Return([status |-> "success", message |-> "Content fetched", content |-> text,
            content_type |-> content_type, url |-> url, http_status |-> status_code],
           status_code)

\* return {...success...}, 200
SuccessReturn(text, content_type, url, status_code) ==
    Return([status |-> "success", message |-> "Content fetched", content |-> text,
            content_type |-> content_type, url |-> url, http_status |-> status_code],
           200)

\* return {...unsupported content type...}, 422
UnsupportedReturn(content_type, url) ==
    Return([status |-> "error", message |-> "Unsupported content type for text return",
            details |-> <<"Received content-type '">> \o content_type
                        \o <<"', which is not text-like.">>,
            url |-> url], 422)

\* return {...binary not supported...}, 422
BinaryReturn(url) ==
    Return([status |-> "error", message |-> "Binary content return not supported yet",
            details |-> <<"Set as_text=true to receive decoded textual content.">>,
            url |-> url], 422)

\* resp.encoding = resp.encoding or resp.apparent_encoding; resp.text
DecodedText(resp) ==
    ResponseText(resp.content,
                 IF resp.encoding # "" THEN resp.encoding
                 ELSE ApparentEncoding(resp.content))

\* the classification with the content-type test ahead of the as_text test
ClassifyResponseTextFirst(resp, url, as_text) ==
    LET content_type == ContentTypeOf(resp)
    IN  IF IsTextLike(content_type)
        THEN IF ~DecodedText(resp).ok THEN Raise("UnicodeError")
             ELSE SuccessReturn(DecodedText(resp).text, content_type, url,
                                resp.status_code)
        ELSE IF as_text THEN UnsupportedReturn(content_type, url)
        ELSE BinaryReturn(url)

\* what post() does with the response once the GET has returned
ClassifyResponse(resp, url, as_text) ==
    LET content_type == ContentTypeOf(resp)
    IN  IF as_text
        THEN IF IsTextLike(content_type)
             THEN IF ~DecodedText(resp).ok THEN Raise("UnicodeError")
                  ELSE SuccessReturn(DecodedText(resp).text, content_type, url,
                                     resp.status_code)
             ELSE UnsupportedReturn(content_type, url)
        ELSE BinaryReturn(url)

(***************************************************************************)
(* Inputs: the requests that arrive and the behaviours of the upstream.    *)
(***************************************************************************)
Req(u, t, f) == [url |-> u, timeout |-> t, as_text |-> f]

Schemes ==
    { <<>>, HttpScheme, HttpsScheme, <<"H", "T", "T", "P", ":", "/", "/">>,
      <<"f", "t", "p", ":", "/", "/">>, <<"h", "t", "t", "p", ":", "/">> }

RemAlphabet == {"a", " ", "/", "\n"}

Remainders == UNION {[1..n -> RemAlphabet] : n \in 0..MaxRem}

\* the urls enumerated: optional leading blank, a scheme or none, a remainder
Urls == {lead \o sch \o rem : lead \in {<<>>, <<" ">>}, sch \in Schemes, rem \in Remainders}

\* the urls sent with every timeout and every as_text
CoreUrls ==
    { HttpScheme \o <<"a", "a">>,
      <<" ">> \o HttpsScheme \o <<"a", "/", "a", " ">>,
      HttpScheme \o <<"a">>,
      <<"n", "o", "t", "-", "a", "-", "u", "r", "l">> }

TimeoutNums == (-2..32) \cup {1000}

TimeoutArgs ==
    {MissingTimeout, Present(NoneV), Present(StrV(<<"a", "b", "c">>)),
     Present(StrV(<<"7">>)), Present(StrV(<<"4", "5">>))}
        \cup {Present(FloatV(n)) : n \in TimeoutNums}

FlagArgs == {MissingFlag, Present(TRUE), Present(FALSE)}

Requests ==
    {Req(u, MissingTimeout, MissingFlag) : u \in Urls}
        \cup {Req(u, t, f) : u \in CoreUrls, t \in TimeoutArgs, f \in FlagArgs}

TextHtml == <<"t", "e", "x", "t", "/", "h", "t", "m", "l">>
ImagePng == <<"i", "m", "a", "g", "e", "/", "p", "n", "g">>
UpperJson == <<"A", "P", "P", "/", "J", "S", "O", "N">>
MixedXml == <<"a", "/", "X", "m", "l">>
AppContext == <<"a", "/", "c", "o", "n", "t", "e", "x", "t">>
AppPdf == <<"a", "/", "p", "d", "f">>
TextUndefined ==
    TextHtml \o <<";", " ", "c", "h", "a", "r", "s", "e", "t", "=">>
        \o <<"u", "n", "d", "e", "f", "i", "n", "e", "d">>

ContentTypes == {TextHtml, ImagePng, UpperJson, MixedXml, AppContext, AppPdf}
Statuses == {200, 404, 503}
Body == <<104, 105, 255>>

\* everything the upstream and the network can do to one GET
Behaviours ==
    {Answer(0, s, TRUE, ct, "utf-8", Body) : s \in Statuses, ct \in ContentTypes}
        \cup {Answer(0, 200, FALSE, <<>>, "", Body),
              Answer(0, 200, TRUE, <<>>, "", <<>>),
              Answer(0, 200, TRUE, TextHtml, "ISO-8859-1", Body),
              Answer(0, 200, TRUE, TextUndefined, "undefined", Body),
              Answer(20, 200, TRUE, TextHtml, "utf-8", Body),
              Answer(20, 404, TRUE, ImagePng, "", Body)}
        \cup {Failure(e) : e \in GetExceptions}

(***************************************************************************)
(* State: one slot per request the runtime serves at a time, holding the   *)
(* locals of post().                                                       *)
(***************************************************************************)
VARIABLES
    pc,           \* where each request is: idle, received, fetch, classify, done
    args,         \* the parsed JSON body of the request
    url,          \* local url (stripped)
    timeout_val,  \* local timeout_val after the clamp
    as_text,      \* local as_text
    resp,         \* local resp, once requests.get has returned
    ret,          \* what post() returned or raised
    calls,        \* the outbound GETs issued for the request, in order
    upstream      \* the behaviour pinned for a url; an unpinned url may get any

vars == <<pc, args, url, timeout_val, as_text, resp, ret, calls, upstream>>

Reqs == 1..NumReq

NoArgs == Req(<<>>, MissingTimeout, MissingFlag)
NoResp == [kind |-> "none"]

Idle ==
    /\ pc = [r \in Reqs |-> "idle"]
    /\ args = [r \in Reqs |-> NoArgs]
    /\ url = [r \in Reqs |-> <<>>]
    /\ timeout_val = [r \in Reqs |-> 0]
    /\ as_text = [r \in Reqs |-> TRUE]
    /\ resp = [r \in Reqs |-> NoResp]
    /\ ret = [r \in Reqs |-> NoReturn]
    /\ calls = [r \in Reqs |-> <<>>]

\* nothing is known about the upstream: any GET may meet any behaviour
Init == Idle /\ upstream = <<>>

\* a request with body a reaches post()
Receive(r, a) ==
    /\ pc[r] = "idle"
    /\ pc' = [pc EXCEPT ![r] = "received"]
    /\ args' = [args EXCEPT ![r] = a]
    /\ UNCHANGED <<url, timeout_val, as_text, resp, ret, calls, upstream>>

\* Validate with the early return left out: the fetch goes ahead
ValidateNoReturn(r) ==
    /\ pc[r] = "received"
    /\ url' = [url EXCEPT ![r] = Strip(args[r].url)]
    /\ as_text' = [as_text EXCEPT ![r] = ArgsGet(args[r], "as_text", TRUE)]
    /\ timeout_val' = [timeout_val EXCEPT ![r] =
            ConstrainTimeout(ArgsGet(args[r], "timeout", FloatV(DefaultTimeout)))]
    /\ pc' = [pc EXCEPT ![r] = "fetch"]
    /\ UNCHANGED <<args, resp, ret, calls, upstream>>

\* the arguments are read, the url validated and the timeout constrained
Validate(r) ==
    /\ pc[r] = "received"
    /\ url' = [url EXCEPT ![r] = Strip(args[r].url)]
    /\ as_text' = [as_text EXCEPT ![r] = ArgsGet(args[r], "as_text", TRUE)]
    /\ IF ~_is_valid_http_url(Strip(args[r].url))
       THEN /\ ret' = [ret EXCEPT ![r] = Return(InvalidUrlBody, 400)]
            /\ pc' = [pc EXCEPT ![r] = "done"]
            /\ UNCHANGED timeout_val
       ELSE /\ timeout_val' = [timeout_val EXCEPT ![r] =
                    ConstrainTimeout(ArgsGet(args[r], "timeout", FloatV(DefaultTimeout)))]
            /\ pc' = [pc EXCEPT ![r] = "fetch"]
            /\ UNCHANGED ret
    /\ UNCHANGED <<args, resp, calls, upstream>>


\* the behaviours a GET of url u can meet
Reply(u) == IF u \in DOMAIN upstream THEN {upstream[u]} ELSE Behaviours

UserAgent == "Visionary-SearchService/1.0"

\* the fetch with one more attempt after a timeout
GetWithRetry(r) ==
    /\ pc[r] = "fetch"
    /\ \E b \in Reply(url[r]) :
        LET g == RequestsGet(b, timeout_val[r])
        IN  /\ calls' = [calls EXCEPT ![r] =
                    Append(@, [url |-> url[r], timeout |-> timeout_val[r],
                               user_agent |-> UserAgent])]
            /\ IF g.ok
               THEN /\ resp' = [resp EXCEPT ![r] = g.resp]
                    /\ pc' = [pc EXCEPT ![r] = "classify"]
                    /\ UNCHANGED ret
               ELSE IF "Timeout" \in Ancestors(g.exc) /\ Len(calls[r]) = 0
               THEN UNCHANGED <<resp, pc, ret>>
               ELSE /\ ret' = [ret EXCEPT ![r] = OnGetException(g.exc, g.msg)]
                    /\ pc' = [pc EXCEPT ![r] = "done"]
                    /\ UNCHANGED resp
    /\ UNCHANGED <<args, url, timeout_val, as_text, upstream>>

\* "Perform fetch": the GET and its except clauses
Get(r) ==
    /\ pc[r] = "fetch"
    /\ \E b \in Reply(url[r]) :
        LET g == RequestsGet(b, timeout_val[r])
        IN  /\ calls' = [calls EXCEPT ![r] =
                    Append(@, [url |-> url[r], timeout |-> timeout_val[r],
                               user_agent |-> UserAgent])]
            /\ IF g.ok
               THEN /\ resp' = [resp EXCEPT ![r] = g.resp]
                    /\ pc' = [pc EXCEPT ![r] = "classify"]
                    /\ UNCHANGED ret
               ELSE /\ ret' = [ret EXCEPT ![r] = OnGetException(g.exc, g.msg)]
                    /\ pc' = [pc EXCEPT ![r] = "done"]
                    /\ UNCHANGED resp
    /\ UNCHANGED <<args, url, timeout_val, as_text, upstream>>

\* resp kept in one place for all requests: the response fetched by the
\* lowest-numbered request that holds one
SharedResponse(r) ==
    resp[CHOOSE q \in Reqs : resp[q] # NoResp /\ \A p \in Reqs : resp[p] # NoResp => q <= p]

\* the local resp of request r
LocalResponse(r) == resp[r]

\* the response is read, classified and returned
Classify(r) ==
    /\ pc[r] = "classify"
    /\ ret' = [ret EXCEPT ![r] = ClassifyResponse(LocalResponse(r), url[r], as_text[r])]
    /\ pc' = [pc EXCEPT ![r] = "done"]
    /\ UNCHANGED <<args, url, timeout_val, as_text, resp, calls, upstream>>

\* the response has gone to the caller; the locals of the request are discarded
Finish(r) ==
    /\ pc[r] = "done"
    /\ pc' = [pc EXCEPT ![r] = "idle"]
    /\ args' = [args EXCEPT ![r] = NoArgs]
    /\ url' = [url EXCEPT ![r] = <<>>]
    /\ timeout_val' = [timeout_val EXCEPT ![r] = 0]
    /\ as_text' = [as_text EXCEPT ![r] = TRUE]
    /\ resp' = [resp EXCEPT ![r] = NoResp]
    /\ ret' = [ret EXCEPT ![r] = NoReturn]
    /\ calls' = [calls EXCEPT ![r] = <<>>]
    /\ UNCHANGED upstream

(***************************************************************************)
(* Spec: requests served one at a time, against an arbitrary upstream.     *)
(***************************************************************************)
ReceiveOne(r) ==
    /\ \A q \in Reqs : pc[q] = "idle"
    /\ \E a \in Requests : Receive(r, a)

Next ==
    \E r \in Reqs :
        \/ ReceiveOne(r)
        \/ Validate(r)
        \/ Get(r)
        \/ Classify(r)
        \/ Finish(r)

Spec == Init /\ [][Next]_vars

(***************************************************************************)
(* SpecConcurrent: NumReq requests served concurrently, against an         *)
(* upstream whose behaviour for each url is fixed once and for all.        *)
(***************************************************************************)
PinnedUrls == { HttpScheme \o <<"a", "a">>, HttpsScheme \o <<"a", "/", "a">> }

PinnedBehaviours ==
    { Answer(20, 200, TRUE, TextHtml, "utf-8", Body),
      Answer(0, 404, TRUE, ImagePng, "", Body),
      Answer(0, 200, TRUE, TextUndefined, "undefined", Body),
      Failure("ConnectionError") }

ConcurrentRequests ==
    {Req(u, t, MissingFlag) :
        u \in { HttpScheme \o <<"a", "a">>,
                <<" ">> \o HttpsScheme \o <<"a", "/", "a", " ">>,
                <<"n", "o", "t", "-", "a", "-", "u", "r", "l">> },
        t \in {MissingTimeout, Present(FloatV(1000))}}
      \cup {Req(HttpScheme \o <<"a", "a">>, Present(FloatV(1000)), Present(FALSE))}

InitConcurrent == Idle /\ upstream \in [PinnedUrls -> PinnedBehaviours]

ReceiveAny(r) == \E a \in ConcurrentRequests : Receive(r, a)

NextConcurrent ==
    \E r \in Reqs :
        \/ ReceiveAny(r)
        \/ Validate(r)
        \/ Get(r)
        \/ Classify(r)
        \/ Finish(r)

SpecConcurrent == InitConcurrent /\ [][NextConcurrent]_vars

(***************************************************************************)
(* Vocabulary of the properties.                                           *)
(***************************************************************************)
\* the FetchOutcome category of what post() handed back
OutcomeCategory(x) ==
    CASE x.kind = "raise" -> "Unhandled"
      [] x.kind = "return" /\ x.code = 200 -> "Success"
      [] x.kind = "return" /\ x.code = 400 -> "InvalidRequest"
      [] x.kind = "return" /\ x.code = 408 -> "Timeout"
      [] x.kind = "return" /\ x.code = 502 -> "UpstreamError"
      [] x.kind = "return" /\ x.code = 500 -> "InternalError"
      [] x.kind = "return" /\ x.code = 422
            /\ x.body.message = "Unsupported content type for text return" ->
            "UnsupportedContentType"
      [] x.kind = "return" /\ x.code = 422
            /\ x.body.message = "Binary content return not supported yet" ->
            "BinaryNotSupported"
      [] OTHER -> "None"

Started(r) == pc[r] # "idle"
Done(r) == pc[r] = "done"
\* the GET of request r returned a response
GotResponse(r) == resp[r] # NoResp
\* the GET of request r was issued and raised
GetFailed(r) == Done(r) /\ calls[r] # <<>> /\ ~GotResponse(r)

\* the url starts with http:// or https://, in any letter case
HasHttpPrefix(u) ==
    \E scheme \in {HttpScheme, HttpsScheme} :
        Len(u) >= Len(scheme) /\ Lower(SubSeq(u, 1, Len(scheme))) = scheme

\* the url is a bare scheme
EmptyRemainder(u) == Lower(u) \in {HttpScheme, HttpsScheme}

\* the three conditions of the specification on a trimmed url
ThreeConditions(u) ==
    \E scheme \in {HttpScheme, HttpsScheme} :
        /\ Len(u) >= Len(scheme)
        /\ Lower(SubSeq(u, 1, Len(scheme))) = scheme
        /\ LET rest == SubSeq(u, Len(scheme) + 1, Len(u))
           IN  /\ rest # <<>>
               /\ rest[1] \notin {"/", "$", ".", "?", "#"}
               /\ \A i \in 1..Len(rest) : rest[i] \notin Whitespace

\* min(max(t,1),30) for a number, 10 for a missing or unparseable value
Resolve(a) ==
    IF a.present /\ ToFloat(a.val).ok
    THEN LET t == ToFloat(a.val).val
         IN  IF t < 1 THEN 1 ELSE IF t > 30 THEN 30 ELSE t
    ELSE 10

\* asText as requested, true by default
WantsText(r) == IF args[r].as_text.present THEN args[r].as_text.val ELSE TRUE

C2_ThreeConditionsDecide ==
    \A r \in Reqs :
        pc[r] \in {"fetch", "classify", "done"}
            => ((OutcomeCategory(ret[r]) # "InvalidRequest")
                    <=> ThreeConditions(Strip(args[r].url)))

\* C2, first example: a one-character remainder such as http://a is accepted
C2_OneCharacterAccepted ==
    \A r \in Reqs :
        (Done(r) /\ Strip(args[r].url) = HttpScheme \o <<"a">>)
            => OutcomeCategory(ret[r]) # "InvalidRequest"

\* C2, second example: a remainder with an embedded blank is rejected
C2_EmbeddedBlankRejected ==
    \A r \in Reqs :
        (Done(r) /\ Strip(args[r].url) = HttpScheme \o <<"a", " ", "a">>)
            => OutcomeCategory(ret[r]) = "InvalidRequest"

(***************************************************************************)
(* C3 as stated: with asText=false and a valid url the outcome is          *)
(* BinaryNotSupported whatever the upstream does, timeouts and refused     *)
(* connections included.                                                   *)
(***************************************************************************)
C3_AlwaysBinaryNotSupported ==
    \A r \in Reqs :
        (Done(r) /\ _is_valid_http_url(args[r].url) /\ ~WantsText(r))
            => OutcomeCategory(ret[r]) = "BinaryNotSupported"

(***************************************************************************)
(* C3 amended: with asText=false and a valid url the response is 422       *)
(* BinaryNotSupported whenever the GET returns a response, whatever its    *)
(* status and content type; when the GET itself fails the outcome is       *)
(* Timeout, UpstreamError or InternalError; it is never Success.           *)
(***************************************************************************)
C3_BinaryNotSupportedOnResponse ==
    \A r \in Reqs :
        (Done(r) /\ _is_valid_http_url(args[r].url) /\ ~WantsText(r))
            => IF GotResponse(r)
               THEN /\ OutcomeCategory(ret[r]) = "BinaryNotSupported"
                    /\ ret[r].code = 422
                    /\ ret[r].body.status = "error"
               ELSE OutcomeCategory(ret[r])
                        \in {"Timeout", "UpstreamError", "InternalError"}

C3_Witness ==
    \E r \in Reqs :
        /\ Done(r)
        /\ ~WantsText(r)
        /\ GotResponse(r)
        /\ resp[r].content_type = TextHtml
        /\ resp[r].status_code = 200
        /\ OutcomeCategory(ret[r]) = "BinaryNotSupported"

(***************************************************************************)
(* C4: the timeout passed to the outbound GET is min(max(t,1),30) for a    *)
(* numeric requested value t and 10 for a missing or unparseable one, so   *)
(* every GET is issued with a timeout in [1, 30].                          *)
(***************************************************************************)
C4_TimeoutClamped ==
    \A r \in Reqs :
        \A i \in 1..Len(calls[r]) :
            /\ calls[r][i].timeout = Resolve(args[r].timeout)
            /\ calls[r][i].timeout >= 1
            /\ calls[r][i].timeout <= 30

C4_Witness ==
    \E r \in Reqs :
        /\ args[r].timeout = Present(FloatV(0))
        /\ calls[r] # <<>>
        /\ calls[r][1].timeout = 1

(***************************************************************************)
(* C5: whatever fails while a request is handled -- in validation, in the  *)
(* GET, or in reading the headers and decoding the body afterwards -- the  *)
(* handler returns a structured body (status "error" with one of 400, 408, *)
(* 422, 502, 500, or the success body); no exception leaves the handler.   *)
(***************************************************************************)
C5_NothingPropagates ==
    \A r \in Reqs :
        Done(r) =>
            /\ ret[r].kind = "return"
            /\ \/ ret[r].body.status = "success" /\ ret[r].code = 200
               \/ ret[r].body.status = "error"
                    /\ ret[r].code \in {400, 408, 422, 502, 500}
            /\ OutcomeCategory(ret[r])
                 \in {"Success", "InvalidRequest", "Timeout", "UpstreamError",
                      "UnsupportedContentType", "BinaryNotSupported", "InternalError"}

(***************************************************************************)
(* C6: when the GET succeeds and asText is true the outcome depends only   *)
(* on the Content-Type header, compared without regard to case: Success    *)
(* when it is absent, empty or contains text, json, xml or html, and       *)
(* UnsupportedContentType with 422, the rejected value in details and the  *)
(* url, otherwise; there is no third outcome.                              *)
(***************************************************************************)
C6_ContentTypeDecides ==
    \A r \in Reqs :
        (Done(r) /\ GotResponse(r) /\ WantsText(r)) =>
            LET ct == IF resp[r].has_content_type THEN resp[r].content_type ELSE <<>>
                textlike == ct = <<>> \/ \E m \in TextMarkers : Contains(Lower(ct), m)
            IN  IF textlike
                THEN OutcomeCategory(ret[r]) = "Success"
                ELSE /\ OutcomeCategory(ret[r]) = "UnsupportedContentType"
                     /\ ret[r].code = 422
                     /\ Contains(ret[r].body.details, ct)
                     /\ ret[r].body.url = url[r]

(***************************************************************************)
(* C7 as stated: every Success is returned with wrapper status 200         *)
(* whatever the upstream status, which appears only as http_status; the    *)
(* body carries the decoded content, the upstream Content-Type unchanged   *)
(* and the url of the request.                                             *)
(***************************************************************************)
C7_SuccessCarriesRequestUrl ==
    \A r \in Reqs :
        (Done(r) /\ ret[r].kind = "return" /\ ret[r].body.status = "success") =>
            /\ ret[r].code = 200
            /\ GotResponse(r)
            /\ ret[r].body.http_status = resp[r].status_code
            /\ DecodedText(resp[r]).ok
            /\ ret[r].body.content = DecodedText(resp[r]).text
            /\ ret[r].body.content_type
                 = (IF resp[r].has_content_type THEN resp[r].content_type ELSE <<>>)
            /\ ret[r].body.url = args[r].url

(***************************************************************************)
(* C7 amended: as above, the url carried being the url of the request      *)
(* with its leading and trailing whitespace trimmed.  A request that got   *)
(* a response is answered 200 or 422, never with the upstream's status.    *)
(***************************************************************************)
C7_SuccessIs200 ==
    \A r \in Reqs :
        /\ (Done(r) /\ ret[r].kind = "return" /\ ret[r].body.status = "success") =>
            /\ ret[r].code = 200
            /\ GotResponse(r)
            /\ ret[r].body.http_status = resp[r].status_code
            /\ DecodedText(resp[r]).ok
            /\ ret[r].body.content = DecodedText(resp[r]).text
            /\ ret[r].body.content_type
                 = (IF resp[r].has_content_type THEN resp[r].content_type ELSE <<>>)
            /\ ret[r].body.url = Strip(args[r].url)
        /\ (Done(r) /\ GotResponse(r) /\ ret[r].kind = "return") =>
            /\ ret[r].code \in {200, 422}
            /\ (ret[r].code = 200) <=> (ret[r].body.status = "success")

C7_Witness ==
    \E r \in Reqs :
        /\ Done(r)
        /\ GotResponse(r)
        /\ resp[r].status_code = 503
        /\ OutcomeCategory(ret[r]) = "Success"
        /\ ret[r].body.http_status = 503
        /\ args[r].url # Strip(args[r].url)

(***************************************************************************)
(* C8: at most one outbound GET is issued per request: one when the url    *)
(* is valid, none when it is not; after a Timeout, UpstreamError or        *)
(* InternalError no further GET is issued for the request.                 *)
(***************************************************************************)
C8_SingleAttempt ==
    /\ [](\A r \in Reqs :
            /\ Len(calls[r]) <= 1
            /\ Done(r) =>
                 Len(calls[r]) = (IF _is_valid_http_url(args[r].url) THEN 1 ELSE 0))
    /\ [][\A r \in Reqs :
            (Done(r) /\ OutcomeCategory(ret[r])
                            \in {"Timeout", "UpstreamError", "InternalError"})
                => Len(calls'[r]) <= Len(calls[r])]_vars

C8_Witness ==
    \E r \in Reqs :
        /\ Done(r)
        /\ OutcomeCategory(ret[r]) = "Timeout"
        /\ Len(calls[r]) = 1

(***************************************************************************)
(* C9: a failed GET is classified in a fixed order: a timeout (a connect   *)
(* timeout included, which is also a connection error) is Timeout, 408;    *)
(* any other network, transport, TLS or connection error is                *)
(* UpstreamError, 502; any other failure is InternalError, 500.  details   *)
(* carries the description of the error and no url field is returned.      *)
(***************************************************************************)
TimeoutErrors == {"ConnectTimeout", "ReadTimeout"}
NetworkErrors == {"ConnectionError", "SSLError", "TooManyRedirects"}

C9_FailureOrder ==
    \A r \in Reqs :
        GetFailed(r) =>
            /\ ret[r].kind = "return"
            /\ ret[r].body.status = "error"
            /\ "url" \notin DOMAIN ret[r].body
            /\ \E e \in GetExceptions :
                /\ ret[r].body.details = <<"str(e) of ", e>>
                /\ ret[r].code = (IF e \in TimeoutErrors THEN 408
                                  ELSE IF e \in NetworkErrors THEN 502 ELSE 500)
                /\ ret[r].body.message
                     = (IF e \in TimeoutErrors THEN "Request timed out"
                        ELSE IF e \in NetworkErrors THEN "Upstream fetch failed"
                        ELSE "Internal server error")

C9_Witness ==
    \E r \in Reqs :
        /\ GetFailed(r)
        /\ ret[r].body.details = <<"str(e) of ", "ConnectTimeout">>
        /\ ret[r].code = 408

(***************************************************************************)
(* C10: the same valid request issued twice, one after the other or        *)
(* interleaved with other requests served concurrently, against an         *)
(* unchanging upstream, ends both times in the same outcome category with  *)
(* the same HTTP status.                                                   *)
(***************************************************************************)
C10_Idempotent ==
    \A r1, r2 \in Reqs :
        (Done(r1) /\ Done(r2) /\ args[r1] = args[r2]
            /\ _is_valid_http_url(args[r1].url))
            => /\ OutcomeCategory(ret[r1]) = OutcomeCategory(ret[r2])
               /\ ret[r1].kind = ret[r2].kind
               /\ ret[r1].kind = "return" => ret[r1].code = ret[r2].code

C10_Witness ==
    \E r1, r2 \in Reqs :
        /\ r1 # r2
        /\ Done(r1) /\ Done(r2)
        /\ args[r1] = args[r2]
        /\ OutcomeCategory(ret[r1]) = "Success"
        /\ OutcomeCategory(ret[r2]) = "Success"

=============================================================================
